---------------------------- MODULE Spec2Model ----------------------------
(***************************************************************************)
(* Model of the ingestion-and-retrieval pipeline of talon-loadmaster:      *)
(* the process-document edge function (two revisions of its handler), the  *)
(* chunkers, and the search_chunks / search_knowledge SQL functions.       *)
(*                                                                         *)
(* Texts are sequences of one-character strings over a small alphabet.     *)
(* Offsets are 0-based as in the TypeScript source.                        *)
(***************************************************************************)
EXTENDS Integers, Sequences, FiniteSets, TLC

(***************************************************************************)
(* Bounds of the model.                                                    *)
(***************************************************************************)
MaxLen == 4
MaxSize == 3
MaxOverlap == 2

(***************************************************************************)
(* Characters.  "a" stands for any letter; " " and "\n" are the whitespace *)
(* that String.prototype.trim and the regex class \s remove.               *)
(***************************************************************************)
Alphabet == {"a", ".", " ", "\n", "#"}

Whitespace == {" ", "\n"}

Max(a, b) == IF a >= b THEN a ELSE b

Min(a, b) == IF a <= b THEN a ELSE b

\* text.slice(a, b) with 0 <= a, b: characters at 0-based positions a .. b-1.
Slice(t, a, b) == SubSeq(t, Min(a, Len(t)) + 1, Min(b, Len(t)))

\* text.slice(-n): the last n characters; slice(-0) is slice(0), the whole text.
SliceFromEnd(t, n) == IF n = 0 \/ n >= Len(t) THEN t ELSE SubSeq(t, Len(t) - n + 1, Len(t))

\* text.trim()
Trim(t) ==
  LET nonWs == {i \in 1..Len(t) : t[i] \notin Whitespace}
  IN IF nonWs = {} THEN <<>>
     ELSE SubSeq(t, CHOOSE i \in nonWs : \A j \in nonWs : i <= j,
                    CHOOSE i \in nonWs : \A j \in nonWs : i >= j)

\* text.lastIndexOf(ch, fromIndex): greatest 0-based position <= fromIndex holding ch, else -1.
LastIndexOf(t, ch, fromIndex) ==
  LET hits == {i \in 0..Min(fromIndex, Len(t) - 1) : t[i + 1] = ch}
  IN IF hits = {} THEN -1 ELSE CHOOSE i \in hits : \A j \in hits : i >= j

\* a chunk record whose offsets count from 1
TextChunk_OneBased(content, startIndex, endIndex) ==
  [content |-> content, startIndex |-> startIndex + 1, endIndex |-> endIndex + 1]

TextChunk(content, startIndex, endIndex) ==
  [content |-> content, startIndex |-> startIndex, endIndex |-> endIndex]

(***************************************************************************)
(* chunkText of process-document (the windowing chunker).                  *)
(***************************************************************************)
\* the end of the window that starts at startIndex
WindowEnd(text, maxChunkSize, startIndex) ==
  LET endIndex == Min(startIndex + maxChunkSize, Len(text))
  IN IF endIndex < Len(text)
     THEN LET lastPeriod == LastIndexOf(text, ".", endIndex)
              lastNewline == LastIndexOf(text, "\n", endIndex)
              breakPoint == Max(lastPeriod, lastNewline)
          IN \* breakPoint > startIndex + maxChunkSize * 0.5
             IF 2 * breakPoint > 2 * startIndex + maxChunkSize
             THEN breakPoint + 1 ELSE endIndex
     ELSE endIndex

\* a window advance that skips one character past the overlap
NextStart_SkipsOne(startIndex, endIndex, overlap) == Max(startIndex + 1, endIndex - overlap + 1)

\* a floor that lets the next window start where this one started
Progress_None(startIndex) == startIndex

\* startIndex + 1, the floor of the next start
Progress(startIndex) == startIndex + 1

\* the start of the next window
NextStart(startIndex, endIndex, overlap) == Max(Progress(startIndex), endIndex - overlap)

\* content.length > 0 guards the push
KeepChunk(content) == Len(content) > 0

RECURSIVE chunkTextLoop(_, _, _, _, _)
chunkTextLoop(text, maxChunkSize, overlap, startIndex, chunks) ==
  IF startIndex < Len(text)
  THEN LET endIndex == WindowEnd(text, maxChunkSize, startIndex)
           content == Trim(Slice(text, startIndex, endIndex))
           pushed == IF KeepChunk(content)
                     THEN Append(chunks, TextChunk(content, startIndex, endIndex))
                     ELSE chunks
       IN chunkTextLoop(text, maxChunkSize, overlap,
                        NextStart(startIndex, endIndex, overlap), pushed)
  ELSE chunks

chunkText(text, maxChunkSize, overlap) ==
  chunkTextLoop(text, maxChunkSize, overlap, 0, <<>>)

(***************************************************************************)
(* The legacy chunkText kept beside chunkMarkdown.                         *)
(***************************************************************************)
RECURSIVE chunkTextLegacyLoop(_, _, _, _, _)
chunkTextLegacyLoop(text, maxChunkSize, overlap, startIndex, chunks) ==
  IF startIndex < Len(text)
  THEN LET cand == Min(startIndex + maxChunkSize, Len(text))
           bestEndIndex == Max(Max(LastIndexOf(text, ".", cand),
                                   LastIndexOf(text, "\n", cand)),
                               LastIndexOf(text, " ", cand))
           endIndex == IF cand < Len(text)
                          /\ 2 * bestEndIndex > 2 * startIndex + maxChunkSize
                       THEN bestEndIndex + 1 ELSE cand
           chunkContent == Trim(Slice(text, startIndex, endIndex))
           pushed == IF Len(chunkContent) > 0
                     THEN Append(chunks, TextChunk(chunkContent, startIndex, endIndex))
                     ELSE chunks
       IN chunkTextLegacyLoop(text, maxChunkSize, overlap,
                              Max(startIndex + 1, endIndex - overlap), pushed)
  ELSE chunks

chunkTextLegacy(text, maxChunkSize, overlap) ==
  IF Len(text) <= maxChunkSize
  THEN <<TextChunk(text, 0, Len(text))>>
  ELSE chunkTextLegacyLoop(text, maxChunkSize, overlap, 0, <<>>)

(***************************************************************************)
(* chunkMarkdown and chunkLargeMarkdownSection.                            *)
(***************************************************************************)
\* the lookahead (?=^#{1,3}\s) with the m flag matches at 0-based position q
HeadingAt(t, q) ==
  /\ q < Len(t)
  /\ (q = 0 \/ t[q] = "\n")
  /\ t[q + 1] = "#"
  /\ \E n \in 1..3 :
       /\ q + n < Len(t)
       /\ \A k \in 1..n : t[q + k] = "#"
       /\ t[q + n + 1] \in Whitespace

\* content.split(/(?=^#{1,3}\s)/m): p is the start of the current piece, q the scan position
RECURSIVE SplitSections(_, _, _)
SplitSections(t, p, q) ==
  IF q >= Len(t) THEN <<Slice(t, p, Len(t))>>
  ELSE IF HeadingAt(t, q) /\ q # p
       THEN <<Slice(t, p, q)>> \o SplitSections(t, q, q)
       ELSE SplitSections(t, p, q + 1)

\* /\n\s*\n/ matched at 0-based position q: the end of the (greedy) match, or -1
ParagraphBreakEnd(t, q) ==
  IF q >= Len(t) \/ t[q + 1] # "\n" THEN -1
  ELSE LET run == {e \in (q + 2)..Len(t) :
                     /\ \A k \in (q + 2)..e : t[k] \in Whitespace
                     /\ t[e] = "\n"}
       IN IF run = {} THEN -1 ELSE CHOOSE e \in run : \A f \in run : e >= f

\* section.split(/\n\s*\n/)
RECURSIVE SplitParagraphs(_, _, _)
SplitParagraphs(t, p, q) ==
  IF q >= Len(t) THEN <<Slice(t, p, Len(t))>>
  ELSE LET e == ParagraphBreakEnd(t, q)
       IN IF e # -1
          THEN <<Slice(t, p, q)>> \o SplitParagraphs(t, e, e)
          ELSE SplitParagraphs(t, p, q + 1)

\* the guard of the push inside the paragraph loop
SaveCurrentChunk(currentChunk) == Len(currentChunk) > 0

RECURSIVE LargeSectionLoop(_, _, _, _, _, _, _, _)
LargeSectionLoop(paragraphs, n, maxChunkSize, overlap, currentChunk, chunkStartIndex, currentIndex, chunks) ==
  IF n > Len(paragraphs)
  THEN IF Len(Trim(currentChunk)) > 0
       THEN Append(chunks, TextChunk(Trim(currentChunk), chunkStartIndex, currentIndex))
       ELSE chunks
  ELSE LET paragraphWithSpacing == paragraphs[n] \o <<"\n", "\n">>
           nextIndex == currentIndex + Len(paragraphWithSpacing)
       IN IF Len(currentChunk) + Len(paragraphWithSpacing) > maxChunkSize
             /\ SaveCurrentChunk(currentChunk)
          THEN LET overlapText == SliceFromEnd(currentChunk, overlap)
               IN LargeSectionLoop(paragraphs, n + 1, maxChunkSize, overlap,
                     overlapText \o paragraphWithSpacing,
                     currentIndex - Len(overlapText), nextIndex,
                     Append(chunks, TextChunk(Trim(currentChunk), chunkStartIndex, currentIndex)))
          ELSE LargeSectionLoop(paragraphs, n + 1, maxChunkSize, overlap,
                     currentChunk \o paragraphWithSpacing,
                     IF Len(currentChunk) = 0 THEN currentIndex ELSE chunkStartIndex,
                     nextIndex, chunks)

chunkLargeMarkdownSection(section, maxChunkSize, overlap) ==
  LargeSectionLoop(SplitParagraphs(section, 0, 0), 1, maxChunkSize, overlap,
                   <<>>, 0, 0, <<>>)

\* the chunks of a large section, shifted by the section's offset
ShiftChunks(sectionChunks, currentIndex) ==
  [k \in 1..Len(sectionChunks) |->
     TextChunk(sectionChunks[k].content,
               currentIndex + sectionChunks[k].startIndex,
               currentIndex + sectionChunks[k].endIndex)]

RECURSIVE MarkdownLoop(_, _, _, _, _, _)
MarkdownLoop(sections, n, maxChunkSize, overlap, currentIndex, chunks) ==
  IF n > Len(sections) THEN chunks
  ELSE LET section == sections[n]
           nextIndex == currentIndex + Len(section)
       IN IF Len(Trim(section)) = 0
          THEN MarkdownLoop(sections, n + 1, maxChunkSize, overlap, nextIndex, chunks)
          ELSE IF Len(section) <= maxChunkSize
          THEN MarkdownLoop(sections, n + 1, maxChunkSize, overlap, nextIndex,
                 Append(chunks, TextChunk(Trim(section), currentIndex, nextIndex)))
          ELSE MarkdownLoop(sections, n + 1, maxChunkSize, overlap, nextIndex,
                 chunks \o ShiftChunks(
                   chunkLargeMarkdownSection(section, maxChunkSize, overlap), currentIndex))

chunkMarkdown(content, maxChunkSize, overlap) ==
  MarkdownLoop(SplitSections(content, 0, 0), 1, maxChunkSize, overlap, 0, <<>>)

(***************************************************************************)
(* The store: the documents and document_chunks tables, the knowledge_base *)
(* table, and the files in the storage bucket.                             *)
(***************************************************************************)
\* d1 is an uploaded document; seed is the test document that the
\* migrations insert as completed, whose file_path is not in the bucket
Docs == {"d1", "seed"}

Status == {"pending", "processing", "completed", "failed"}

\* Embeddings are points 0 .. 3; NULL is an unset vector column.
Vec == 0..3

NULL == -1

\* the pgvector operator <=> (cosine distance), in hundredths
CosineDistance(a, b) ==
  LET d == IF a >= b THEN a - b ELSE b - a
  IN CASE d = 0 -> 0 [] d = 1 -> 18 [] d = 2 -> 35 [] OTHER -> 60

\* 1 - (embedding <=> query_embedding), in hundredths
Similarity(embedding, query_embedding) == 100 - CosineDistance(embedding, query_embedding)

\* the embedding service: one fixed vector per input text
generateEmbedding(content) == Len(content) % 4

\* the contents of the uploaded files: blank, one chunk, three chunks
Files == {<<" ">>, <<"a">>, <<"a", ".", "a">>}

\* no object at the document's file_path
NoFile == <<"missing">>

\* the chunks and the knowledge entry inserted with the test document
SeedChunks ==
  {[id |-> <<0, k>>, document_id |-> "seed", chunk_index |-> k, embedding |-> k] : k \in 0..1}

\* the users; documents.user_id of each document
Users == {"u1", "u2"}

documents_user_id == [d1 |-> "u1", seed |-> "u2"]

SeedKnowledge == {[id |-> <<0, 0>>, user_id |-> "u2", embedding |-> 1]}

\* the arguments of chunkText(text, 1000, 200) in the handler
ChunkSize == 1000

ChunkOverlap == 200

\* the handler's batchSize (5 in the source), scaled to the model's files
batchSize == 2

\* the number of handler invocations in one behaviour
MaxRuns == 2

\* documents created by an upload, with upload_status 'pending'
Uploaded == {"d1"}

\* the two revisions of the process-document handler
Revisions == {"part_000", "part_001"}

VARIABLES text, maxChunkSize, overlap, chunker, chunks, startIndex,
          upload_status, document_chunks, knowledge_base, file,
          revision, run, runCount, lastSearch, chat, call

chunkVars == <<text, maxChunkSize, overlap, chunker, chunks, startIndex>>

storeVars == <<upload_status, document_chunks, knowledge_base, file>>

vars == <<text, maxChunkSize, overlap, chunker, chunks, startIndex,
          upload_status, document_chunks, knowledge_base, file,
          revision, run, runCount, lastSearch, chat, call>>

\* no invocation of the handler is active
IdleRun == [pc |-> "idle", ordinal |-> 0, i |-> 0,
            chunks |-> <<>>, task |-> <<>>, error |-> "none"]

NoSearch == [fn |-> "none", query_embedding |-> 0, match_threshold |-> 0,
             match_count |-> 0, rows |-> <<>>]

\* the reply of an rpc call: data is null exactly when error is set
NoData == [error |-> FALSE, data |-> <<>>]

\* the body of a request without conversationHistory
NoHistory == [present |-> FALSE, entries |-> <<>>]

NoResponse == [status |-> 0, response |-> <<>>, error |-> <<>>, details |-> <<>>,
               contextsUsed |-> [documentChunks |-> 0, knowledgeEntries |-> 0]]

\* no chat request is being handled
ChatIdle == [pc |-> "idle", message |-> <<>>, conversationHistory |-> NoHistory,
             relevantChunks |-> NoData, relevantKnowledge |-> NoData,
             context |-> <<>>, messages |-> <<>>, upstream |-> <<>>,
             response |-> NoResponse, shown |-> <<>>]

\* no function of the extraction and embedding helpers has been called
NoCall == [fn |-> "none"]

\* the chunk harness at rest
ChunkIdle ==
  /\ text = <<>>
  /\ maxChunkSize = 1
  /\ overlap = 0
  /\ chunker = "none"
  /\ chunks = <<>>
  /\ startIndex = 0

\* the store after the migrations
SeededStore ==
  /\ upload_status = [d \in Docs |-> IF d = "seed" THEN "completed" ELSE "pending"]
  /\ document_chunks = SeedChunks
  /\ knowledge_base = SeedKnowledge

\* the pipeline at rest
PipelineIdle ==
  /\ SeededStore
  /\ file = [d \in Docs |-> IF d = "seed" THEN NoFile ELSE <<"a">>]
  /\ revision = "part_001"
  /\ run = [d \in Docs |-> IdleRun]
  /\ runCount = [d \in Docs |-> 0]
  /\ lastSearch = NoSearch
  /\ chat = ChatIdle
  /\ call = NoCall

(***************************************************************************)
(* Harness for the chunkers: the inputs are drawn in InitChunk and the     *)
(* Call actions apply one chunker to them.                                 *)
(***************************************************************************)
Texts == UNION {[1..n -> Alphabet] : n \in 0..MaxLen}

\* the call chunkText("A. B. C.", 4, 1)
Scenario ==
  [text |-> <<"A", ".", " ", "B", ".", " ", "C", ".">>, maxChunkSize |-> 4, overlap |-> 1]

InitChunk ==
  /\ \/ /\ text \in Texts
        /\ maxChunkSize \in 1..MaxSize
        /\ overlap \in 0..MaxOverlap
     \/ /\ text = Scenario.text
        /\ maxChunkSize = Scenario.maxChunkSize
        /\ overlap = Scenario.overlap
  /\ chunker = "none"
  /\ chunks = <<>>
  /\ startIndex = 0
  /\ PipelineIdle

pipelineVars == <<upload_status, document_chunks, knowledge_base, file,
                  revision, run, runCount, lastSearch, chat>>

CallChunkText ==
  /\ chunker = "none"
  /\ chunker' = "chunkText"
  /\ chunks' = chunkText(text, maxChunkSize, overlap)
  /\ UNCHANGED <<text, maxChunkSize, overlap, startIndex, pipelineVars, call>>

CallChunkTextLegacy ==
  /\ chunker = "none"
  /\ chunker' = "chunkTextLegacy"
  /\ chunks' = chunkTextLegacy(text, maxChunkSize, overlap)
  /\ UNCHANGED <<text, maxChunkSize, overlap, startIndex, pipelineVars, call>>

CallChunkMarkdown ==
  /\ chunker = "none"
  /\ chunker' = "chunkMarkdown"
  /\ chunks' = chunkMarkdown(text, maxChunkSize, overlap)
  /\ UNCHANGED <<text, maxChunkSize, overlap, startIndex, pipelineVars, call>>

\* chunkText applied again, with the same parameters, to the content of the
\* k-th chunk it returned; text holds the content given as input
ReChunkText(k) ==
  /\ chunker = "chunkText"
  /\ k \in 1..Len(chunks)
  /\ chunker' = "reChunkText"
  /\ text' = chunks[k].content
  /\ chunks' = chunkText(chunks[k].content, maxChunkSize, overlap)
  /\ UNCHANGED <<maxChunkSize, overlap, startIndex, pipelineVars, call>>

NextChunk ==
  \/ CallChunkText
  \/ CallChunkTextLegacy
  \/ CallChunkMarkdown
  \/ \E k \in 1..MaxLen : ReChunkText(k)

SpecChunk == InitChunk /\ [][NextChunk]_vars

(***************************************************************************)
(* The while loop of chunkText, one iteration per step: startIndex and     *)
(* chunks are the loop's variables, chunker tells where the call stands.   *)
(***************************************************************************)
\* the texts the loop is run on: a letter, a sentence end, and a character
\* that is both a break point and whitespace
LoopTexts == UNION {[1..n -> {"a", ".", "\n"}] : n \in 0..MaxLen}

InitChunkLoop ==
  /\ text \in LoopTexts
  /\ maxChunkSize \in 1..MaxSize
  /\ overlap \in 0..MaxOverlap
  /\ chunker = "none"
  /\ chunks = <<>>
  /\ startIndex = 0
  /\ PipelineIdle

\* const chunks = []; let startIndex = 0
EnterChunkText ==
  /\ chunker = "none"
  /\ chunker' = "chunkText.loop"
  /\ chunks' = <<>>
  /\ startIndex' = 0
  /\ UNCHANGED <<text, maxChunkSize, overlap, pipelineVars, call>>

\* one pass through the body of while (startIndex < text.length)
ChunkTextIteration ==
  /\ chunker = "chunkText.loop"
  /\ startIndex < Len(text)
  /\ LET endIndex == WindowEnd(text, maxChunkSize, startIndex)
         content == Trim(Slice(text, startIndex, endIndex))
     IN /\ chunks' = IF KeepChunk(content)
                     THEN Append(chunks, TextChunk(content, startIndex, endIndex))
                     ELSE chunks
        /\ startIndex' = NextStart(startIndex, endIndex, overlap)
  /\ UNCHANGED <<text, maxChunkSize, overlap, chunker, pipelineVars, call>>

\* the loop condition is false: return chunks
ChunkTextReturn ==
  /\ chunker = "chunkText.loop"
  /\ ~(startIndex < Len(text))
  /\ chunker' = "chunkText.returned"
  /\ UNCHANGED <<text, maxChunkSize, overlap, chunks, startIndex, pipelineVars, call>>

NextChunkLoop == EnterChunkText \/ ChunkTextIteration \/ ChunkTextReturn

\* the call runs to completion once made: JavaScript does not preempt it
SpecChunkLoop == InitChunkLoop /\ [][NextChunkLoop]_vars /\ WF_vars(NextChunkLoop)

(***************************************************************************)
(* search_chunks and search_knowledge.                                     *)
(***************************************************************************)
\* WHERE d.upload_status = 'completed' (the JOIN of search_chunks)
ParentCompleted_Any(status) == TRUE

ParentCompleted(status) == status = "completed"

\* WHERE 1 - (embedding <=> query_embedding) > match_threshold;
\* a comparison with a NULL embedding is not true
AboveThreshold_OrEqual(embedding, query_embedding, match_threshold) ==
  /\ embedding # NULL
  /\ Similarity(embedding, query_embedding) >= match_threshold

AboveThreshold(embedding, query_embedding, match_threshold) ==
  /\ embedding # NULL
  /\ Similarity(embedding, query_embedding) > match_threshold

\* the rows of remaining that ORDER BY embedding <=> query_embedding may put first
Nearest(remaining, query_embedding) ==
  {r \in remaining : \A o \in remaining :
     CosineDistance(r.embedding, query_embedding) <= CosineDistance(o.embedding, query_embedding)}

\* LIMIT match_count
Limit(match_count) == Max(match_count, 0)

\* ORDER BY embedding <=> query_embedding LIMIT n: every sequence the
\* statement may return for the selected rows (ties in any order)
RECURSIVE OrderLimit(_, _, _)
OrderLimit(selected, query_embedding, n) ==
  IF n = 0 \/ selected = {} THEN {<<>>}
  ELSE UNION {{<<r>> \o s : s \in OrderLimit(selected \ {r}, query_embedding, n - 1)} :
              r \in Nearest(selected, query_embedding)}

\* the rows of a chunk table that the WHERE clause of search_chunks selects
MatchingChunks(table, query_embedding, match_threshold) ==
  {dc \in table :
     /\ ParentCompleted(upload_status[dc.document_id])
     /\ AboveThreshold(dc.embedding, query_embedding, match_threshold)}

\* the rows of a knowledge table that the WHERE clause of search_knowledge selects
MatchingKnowledge(table, query_embedding, match_threshold) ==
  {kb \in table :
     /\ kb.embedding # NULL
     /\ AboveThreshold(kb.embedding, query_embedding, match_threshold)}

search_chunks(query_embedding, match_threshold, match_count) ==
  OrderLimit(MatchingChunks(document_chunks, query_embedding, match_threshold),
             query_embedding, Limit(match_count))

search_knowledge(query_embedding, match_threshold, match_count) ==
  OrderLimit(MatchingKnowledge(knowledge_base, query_embedding, match_threshold),
             query_embedding, Limit(match_count))

\* the arguments chat-with-talon passes to the two functions
MatchThreshold == 70

ChunkMatchCount == 5

KnowledgeMatchCount == 3

SearchRecord(fn, q, threshold, count, rows) ==
  [fn |-> fn, query_embedding |-> q, match_threshold |-> threshold,
   match_count |-> count, rows |-> rows]

(***************************************************************************)
(* The process-document handler.  run[d] is the invocation working on      *)
(* document d: its position, its revision, the chunks it produced, the     *)
(* state of the task of each chunk and the error it threw, if any.         *)
(***************************************************************************)
Settled == {"inserted", "embedFailed", "insertFailed"}

\* the chunk indices of the batch that starts at i
Batch(i, n) == {k \in 0..(n - 1) : i <= k /\ k < i + batchSize}

\* a map over all the chunks that are left, not over the slice
StartBatch_All(task, i) ==
  [k \in DOMAIN task |-> IF task[k] = "notStarted" THEN "embedding" ELSE task[k]]

\* batch.map(async ...): every task of the batch issues its embedding call
StartBatch(task, i) ==
  [k \in DOMAIN task |-> IF k - 1 \in Batch(i, Len(task)) THEN "embedding" ELSE task[k]]

\* await Promise.all(batchPromises): resumes when one task has settled
BatchSettled_Any(task, i) ==
  \E k \in Batch(i, Len(task)) : task[k + 1] \in Settled

\* await Promise.all(batchPromises): resumes when every task has settled
BatchSettled(task, i) ==
  \A k \in Batch(i, Len(task)) : task[k + 1] \in Settled

\* a chunk error that escapes to the handler's catch block
AfterChunkError_Rethrown(r) == [r EXCEPT !.pc = "catch", !.error = "chunk"]

\* catch (chunkError): logged, the handler goes on
AfterChunkError(r) == r

\* generateEmbedding throws: the insert of that chunk is never issued
AfterEmbedFailure == "embedFailed"

\* the catch block can tell which document failed: part_001 keeps documentId
\* in a variable declared outside the try; part_000 reads req.json() a second
\* time, which rejects because the body was consumed, and gets {}
CatchKnowsDocumentId(rev) == rev = "part_001"

\* the invocations started so far
RECURSIVE SumRuns(_)
SumRuns(S) == IF S = {} THEN 0
              ELSE LET d == CHOOSE x \in S : TRUE IN runCount[d] + SumRuns(S \ {d})

TotalRuns == SumRuns(Docs)

Init ==
  /\ ChunkIdle
  /\ SeededStore
  /\ file \in {f \in [Docs -> Files \cup {NoFile}] : f["seed"] = NoFile /\ f["d1"] # NoFile}
  /\ revision \in Revisions
  /\ run = [d \in Docs |-> IdleRun]
  /\ runCount = [d \in Docs |-> 0]
  /\ lastSearch = NoSearch
  /\ chat = ChatIdle
  /\ call = NoCall

\* a request arrives: req.json(), then UPDATE ... SET upload_status = 'processing'
StartRun(d) ==
  /\ run[d].pc \in {"idle", "returned", "abandoned"}
  /\ TotalRuns < MaxRuns
  /\ runCount' = [runCount EXCEPT ![d] = @ + 1]
  /\ run' = [run EXCEPT ![d] = [IdleRun EXCEPT !.pc = "download", !.ordinal = runCount[d] + 1]]
  /\ upload_status' = [upload_status EXCEPT ![d] = "processing"]
  /\ UNCHANGED <<chunkVars, call, document_chunks, knowledge_base, file, revision, lastSearch, chat>>

\* supabase.storage.download returns the file or a downloadError
Download(d, ok) ==
  /\ run[d].pc = "download"
  /\ ok => file[d] # NoFile
  /\ run' = [run EXCEPT ![d] = IF ok THEN [@ EXCEPT !.pc = "extract"]
                                ELSE [@ EXCEPT !.pc = "catch", !.error = "download"]]
  /\ UNCHANGED <<chunkVars, call, storeVars, revision, runCount, lastSearch, chat>>

\* extractTextFromFile returns or raises; the text is checked and chunked and
\* the first batch is issued
Extract(d, raises) ==
  /\ run[d].pc = "extract"
  /\ LET t == file[d]
         cs == chunkText(t, ChunkSize, ChunkOverlap)
         task0 == [k \in 1..Len(cs) |-> "notStarted"]
     IN run' = [run EXCEPT ![d] =
          IF raises THEN [@ EXCEPT !.pc = "catch", !.error = "extract"]
          ELSE IF Len(Trim(t)) = 0 THEN [@ EXCEPT !.pc = "catch", !.error = "empty"]
          ELSE IF Len(cs) = 0 THEN [@ EXCEPT !.pc = "complete", !.chunks = cs]
          ELSE [@ EXCEPT !.pc = "batch", !.chunks = cs, !.i = 0,
                         !.task = StartBatch(task0, 0)]]
  /\ UNCHANGED <<chunkVars, call, storeVars, revision, runCount, lastSearch, chat>>

\* the embedding call of chunk k returns; on success the insert is issued
EmbedReturn(d, k, ok) ==
  /\ k \in DOMAIN run[d].task
  /\ run[d].task[k] = "embedding"
  /\ run' = [run EXCEPT ![d] =
       IF ok THEN [@ EXCEPT !.task[k] = "inserting"]
       ELSE AfterChunkError([@ EXCEPT !.task[k] = AfterEmbedFailure])]
  /\ UNCHANGED <<chunkVars, call, storeVars, revision, runCount, lastSearch, chat>>

\* the row the handler inserts for chunk k (chunk_index is 0-based)
ChunkRow(d, r, k) ==
  [id |-> <<r.ordinal, k - 1>>, document_id |-> d, chunk_index |-> k - 1,
   embedding |-> generateEmbedding(r.chunks[k].content)]

\* an insert error that undoes the rows the invocation has stored
AfterInsertError_RolledBack(rows, d, r) ==
  {dc \in rows : ~(dc.document_id = d /\ dc.id[1] = r.ordinal)}

\* if (insertError): logged, the table is as it was
AfterInsertError(rows, d, r) == rows

\* the insert of chunk k returns, with or without insertError
InsertReturn(d, k, ok) ==
  /\ k \in DOMAIN run[d].task
  /\ run[d].task[k] = "inserting"
  /\ IF ok
     THEN /\ document_chunks' = document_chunks \cup {ChunkRow(d, run[d], k)}
          /\ run' = [run EXCEPT ![d].task[k] = "inserted"]
     ELSE /\ document_chunks' = AfterInsertError(document_chunks, d, run[d])
          /\ run' = [run EXCEPT ![d] = AfterChunkError([@ EXCEPT !.task[k] = "insertFailed"])]
  /\ UNCHANGED <<chunkVars, call, upload_status, knowledge_base, file, revision, runCount, lastSearch, chat>>

\* Promise.all resolves; the handler pauses before the next batch or leaves the loop
BatchDone(d) ==
  /\ run[d].pc = "batch"
  /\ BatchSettled(run[d].task, run[d].i)
  /\ run' = [run EXCEPT ![d].pc =
       IF run[d].i + batchSize < Len(run[d].chunks) THEN "pause" ELSE "complete"]
  /\ UNCHANGED <<chunkVars, call, storeVars, revision, runCount, lastSearch, chat>>

\* the one-second timer fires; i += batchSize and the next batch is issued
PauseDone(d) ==
  /\ run[d].pc = "pause"
  /\ run' = [run EXCEPT ![d] = [@ EXCEPT !.pc = "batch", !.i = @ + batchSize,
                                        !.task = StartBatch(run[d].task, run[d].i + batchSize)]]
  /\ UNCHANGED <<chunkVars, call, storeVars, revision, runCount, lastSearch, chat>>

\* UPDATE ... SET upload_status = 'completed', then the 200 response
Complete(d) ==
  /\ run[d].pc = "complete"
  /\ upload_status' = [upload_status EXCEPT ![d] = "completed"]
  /\ run' = [run EXCEPT ![d].pc = "returned"]
  /\ UNCHANGED <<chunkVars, call, document_chunks, knowledge_base, file, revision, runCount, lastSearch, chat>>

\* the catch block: UPDATE ... SET upload_status = 'failed' if the document
\* id is at hand, then the 500 response
Catch(d) ==
  /\ run[d].pc = "catch"
  /\ upload_status' = IF CatchKnowsDocumentId(revision)
                      THEN [upload_status EXCEPT ![d] = "failed"]
                      ELSE upload_status
  /\ run' = [run EXCEPT ![d].pc = "returned"]
  /\ UNCHANGED <<chunkVars, call, document_chunks, knowledge_base, file, revision, runCount, lastSearch, chat>>

\* the positions at which an invocation is still running
Running == {"download", "extract", "batch", "pause", "complete", "catch"}

\* the runtime ends the invocation before it returns (restart, time limit):
\* the handler takes no further step; an insert already sent to the database
\* may still be applied, the calls not yet made are never made
Abandon(d) ==
  /\ run[d].pc \in Running
  /\ run' = [run EXCEPT ![d] = [@ EXCEPT !.pc = "abandoned",
       !.task = [k \in DOMAIN @ |-> IF @[k] \in {"notStarted", "embedding"}
                                    THEN "abandoned" ELSE @[k]]]]
  /\ UNCHANGED <<chunkVars, call, storeVars, revision, runCount, lastSearch, chat>>

\* a WHERE clause that also takes the documents not yet processed
Stuck_OrPending(status) == status \in {"processing", "pending"}

\* WHERE upload_status = 'processing'
Stuck(status) == status = "processing"

\* the maintenance statement: UPDATE documents SET upload_status = 'failed'
\* WHERE upload_status = 'processing'
MaintenancePass ==
  /\ upload_status' = [d \in Docs |-> IF Stuck(upload_status[d]) THEN "failed"
                                       ELSE upload_status[d]]
  /\ UNCHANGED <<chunkVars, call, document_chunks, knowledge_base, file, revision, run,
                 runCount, lastSearch, chat>>

Next ==
  \/ \E d \in Docs : StartRun(d)
  \/ \E d \in Docs, ok \in BOOLEAN : Download(d, ok)
  \/ \E d \in Docs, raises \in BOOLEAN : Extract(d, raises)
  \/ \E d \in Docs, k \in 1..MaxLen, ok \in BOOLEAN : EmbedReturn(d, k, ok)
  \/ \E d \in Docs, k \in 1..MaxLen, ok \in BOOLEAN : InsertReturn(d, k, ok)
  \/ \E d \in Docs : BatchDone(d)
  \/ \E d \in Docs : PauseDone(d)
  \/ \E d \in Docs : Complete(d)
  \/ \E d \in Docs : Catch(d)
  \/ \E d \in Docs : Abandon(d)
  \/ MaintenancePass

Spec == Init /\ [][Next]_vars

(***************************************************************************)
(* Harness for the two search functions: InitSearch draws a store, the     *)
(* Call actions run one function on it with drawn arguments and keep what  *)
(* it returned in lastSearch.                                              *)
(***************************************************************************)
MaxRows == 2

MaxCount == 2

Thresholds == {70, 82}

\* the tables with at most MaxRows rows
ChunkTables ==
  LET slot(k) == {{}} \cup {{[id |-> <<0, k>>, document_id |-> d, chunk_index |-> k - 1,
                               embedding |-> e]} : d \in Docs, e \in Vec \cup {NULL}}
      RECURSIVE upTo(_)
      upTo(k) == IF k = 0 THEN {{}} ELSE {t \cup r : t \in upTo(k - 1), r \in slot(k)}
  IN upTo(MaxRows)

KnowledgeTables ==
  LET slot(k) == {{}} \cup {{[id |-> <<0, k>>, user_id |-> u, embedding |-> e]} :
                               u \in Users, e \in Vec \cup {NULL}}
      RECURSIVE upTo(_)
      upTo(k) == IF k = 0 THEN {{}} ELSE {t \cup r : t \in upTo(k - 1), r \in slot(k)}
  IN upTo(MaxRows)

InitSearch ==
  /\ ChunkIdle
  /\ \/ /\ upload_status \in [Docs -> Status]
        /\ upload_status["seed"] \in {"completed", "processing"}
        /\ document_chunks \in ChunkTables
        /\ knowledge_base = {}
     \/ /\ upload_status = [d \in Docs |-> "completed"]
        /\ document_chunks = {}
        /\ knowledge_base \in KnowledgeTables
  /\ file = [d \in Docs |-> NoFile]
  /\ revision = "part_001"
  /\ run = [d \in Docs |-> IdleRun]
  /\ runCount = [d \in Docs |-> 0]
  /\ lastSearch = NoSearch
  /\ chat = ChatIdle
  /\ call = NoCall

CallSearchChunks(q, threshold, count) ==
  /\ lastSearch = NoSearch
  /\ \E rows \in search_chunks(q, threshold, count) :
       lastSearch' = SearchRecord("search_chunks", q, threshold, count, rows)
  /\ UNCHANGED <<chunkVars, call, storeVars, revision, run, runCount, chat>>

CallSearchKnowledge(q, threshold, count) ==
  /\ lastSearch = NoSearch
  /\ \E rows \in search_knowledge(q, threshold, count) :
       lastSearch' = SearchRecord("search_knowledge", q, threshold, count, rows)
  /\ UNCHANGED <<chunkVars, call, storeVars, revision, run, runCount, chat>>

NextSearch ==
  \/ \E q \in Vec, threshold \in Thresholds, count \in 1..MaxCount :
       CallSearchChunks(q, threshold, count)
  \/ \E q \in Vec, threshold \in Thresholds, count \in 1..MaxCount :
       CallSearchKnowledge(q, threshold, count)

SpecSearch == InitSearch /\ [][NextSearch]_vars

(***************************************************************************)
(* The retrieval of chat-with-talon seen by a user: the function is        *)
(* created with the service-role key and does not read the caller's        *)
(* identity, so a request by any user runs the two searches over the       *)
(* whole store.                                                            *)
(***************************************************************************)
ChatRetrieval(user, query_embedding) ==
  /\ call.fn = "none"
  /\ \E rc \in search_chunks(query_embedding, MatchThreshold, ChunkMatchCount),
        rk \in search_knowledge(query_embedding, MatchThreshold, KnowledgeMatchCount) :
       call' = [fn |-> "chat-with-talon", user |-> user, query_embedding |-> query_embedding,
                relevantChunks |-> rc, relevantKnowledge |-> rk]
  /\ UNCHANGED <<chunkVars, pipelineVars>>

NextIsolation ==
  /\ call.fn = "none"
  /\ \E user \in Users, q \in Vec : ChatRetrieval(user, q)

SpecIsolation == InitSearch /\ [][NextIsolation]_vars

(***************************************************************************)
(* The chat-with-talon handler and the client's sendMessage.  A string is  *)
(* a sequence of pieces (literal text, a number printed by ToString, the   *)
(* content of a row), concatenated in the order the template puts them.    *)
(***************************************************************************)
\* rows an rpc call returns at most, and entries a client sends at most
MaxResults == 2

MaxHistory == 7

\* conversationHistory?.slice(-6)
HistoryWindow == 6

ChunkHits == {[content |-> c] : c \in {"c1", "c2"}}

KnowledgeHits == {[title |-> "t1", content |-> "k1"], [title |-> "t2", content |-> "k2"]}

\* { data, error } of supabase.rpc: an error with data null, or the rows
RpcOutcomes(hits) ==
  {[error |-> TRUE, data |-> <<>>]} \cup
  {[error |-> FALSE, data |-> rows] : rows \in UNION {[1..m -> hits] : m \in 0..MaxResults}}

\* the k-th message of a conversation
HistoryEntry(k) ==
  [role |-> IF k % 2 = 1 THEN "assistant" ELSE "user", content |-> <<"m", ToString(k)>>]

Histories ==
  {NoHistory} \cup
  {[present |-> TRUE, entries |-> [k \in 1..n |-> HistoryEntry(k)]] : n \in 0..MaxHistory}

\* what the embedding and the generation service answer: a completion, or
\* an error with its status and body
UpstreamErrors == {[ok |-> FALSE, status |-> "429", text |-> <<"quota exceeded">>],
                   [ok |-> FALSE, status |-> "500", text |-> <<"server error">>]}

GenerationOutcomes == {[ok |-> TRUE, status |-> "200", text |-> <<"answer">>]} \cup UpstreamErrors

\* an item numbered from 0
ItemNumber_FromZero(index) == index

\* index + 1 in the two forEach callbacks
ItemNumber(index) == index + 1

\* relevantChunks.forEach: `[${index + 1}] ${chunk.content}\n\n`
RECURSIVE RenderChunks(_, _)
RenderChunks(rows, k) ==
  IF k > Len(rows) THEN <<>>
  ELSE <<"[", ToString(ItemNumber(k - 1)), "] ", rows[k].content, "\n\n">>
       \o RenderChunks(rows, k + 1)

\* relevantKnowledge.forEach: `[KB${index + 1}] ${entry.title}: ${entry.content}\n\n`
RECURSIVE RenderKnowledge(_, _)
RenderKnowledge(rows, k) ==
  IF k > Len(rows) THEN <<>>
  ELSE <<"[KB", ToString(ItemNumber(k - 1)), "] ", rows[k].title, ": ", rows[k].content, "\n\n">>
       \o RenderKnowledge(rows, k + 1)

\* data && data.length > 0
HasRows(result) == ~result.error /\ Len(result.data) > 0

\* data?.length || 0
RowCount(result) == IF result.error THEN 0 ELSE Len(result.data)

\* let context = ''; then the two sections
AssembleContext(relevantChunks, relevantKnowledge) ==
  (IF HasRows(relevantChunks)
   THEN <<"Relevant document excerpts:\n\n">> \o RenderChunks(relevantChunks.data, 1)
   ELSE <<>>)
  \o
  (IF HasRows(relevantKnowledge)
   THEN <<"Relevant knowledge base entries:\n\n">> \o RenderKnowledge(relevantKnowledge.data, 1)
   ELSE <<>>)

\* the template of systemPrompt: the persona, the context passage when
\* context is not the empty string, the closing instruction
systemPrompt(context) ==
  <<"You are TALON, ...">>
  \o (IF context # <<>>
      THEN <<"Use the following context information to inform your response:\n\n">> \o context
      ELSE <<>>)
  \o <<"Respond in a helpful, professional manner appropriate for military personnel.">>

\* a history passed on whole
RecentHistory_All(conversationHistory) ==
  IF conversationHistory.present THEN conversationHistory.entries ELSE <<>>

\* conversationHistory?.slice(-6) || []
RecentHistory(conversationHistory) ==
  IF conversationHistory.present
  THEN SliceFromEnd(conversationHistory.entries, HistoryWindow)
  ELSE <<>>

\* messages: [system, ...recentHistory, user]
GenerationMessages(context, conversationHistory, message) ==
  <<[role |-> "system", content |-> systemPrompt(context)]>>
  \o RecentHistory(conversationHistory)
  \o <<[role |-> "user", content |-> message]>>

\* new Error(`OpenAI API error: ${response.status} ${errorText}`)
UpstreamError(outcome) == <<"OpenAI API error: ", outcome.status, " ">> \o outcome.text

\* the 500 response of the catch block
CatchResponse(errorMessage) ==
  [NoResponse EXCEPT !.status = 500, !.error = <<"Chat processing failed">>,
                     !.details = errorMessage]

\* the 200 response
OkResponse(assistantResponse, relevantChunks, relevantKnowledge) ==
  [NoResponse EXCEPT !.status = 200, !.response = assistantResponse,
     !.contextsUsed = [documentChunks |-> RowCount(relevantChunks),
                       knowledgeEntries |-> RowCount(relevantKnowledge)]]

\* a search error that escapes to the catch block
AfterSearchError_Thrown(c) ==
  [c EXCEPT !.pc = "responded", !.response = CatchResponse(<<"search failed">>)]

\* if (searchError) console.error(...): the handler goes on
AfterSearchError(c) == c

\* the text sendMessage puts in the conversation when invoke failed
FallbackText ==
  <<"I'm sorry, I'm experiencing technical difficulties right now. Please try again in a moment.">>

\* sendMessage posts the message and the history; the handler reads them
ChatRequest(message, conversationHistory) ==
  /\ chat.pc = "idle"
  /\ chat' = [chat EXCEPT !.pc = "embedding", !.message = message,
                          !.conversationHistory = conversationHistory]
  /\ UNCHANGED <<chunkVars, call, storeVars, revision, run, runCount, lastSearch>>

\* generateEmbedding(message) returns the vector or throws
EmbedQuestion(outcome) ==
  /\ chat.pc = "embedding"
  /\ chat' = IF outcome.ok
             THEN [chat EXCEPT !.pc = "search_chunks"]
             ELSE [chat EXCEPT !.pc = "responded", !.upstream = <<outcome.status>> \o outcome.text,
                               !.response = CatchResponse(UpstreamError(outcome))]
  /\ UNCHANGED <<chunkVars, call, storeVars, revision, run, runCount, lastSearch>>

\* supabase.rpc('search_chunks', ...) returns
RpcSearchChunks(result) ==
  /\ chat.pc = "search_chunks"
  /\ LET c == [chat EXCEPT !.pc = "search_knowledge", !.relevantChunks = result]
     IN chat' = IF result.error THEN AfterSearchError(c) ELSE c
  /\ UNCHANGED <<chunkVars, call, storeVars, revision, run, runCount, lastSearch>>

\* supabase.rpc('search_knowledge', ...) returns; the context and the
\* message list are built and the generation request is sent
RpcSearchKnowledge(result) ==
  /\ chat.pc = "search_knowledge"
  /\ LET context == AssembleContext(chat.relevantChunks, result)
         c == [chat EXCEPT !.pc = "generating", !.relevantKnowledge = result,
                           !.context = context,
                           !.messages = GenerationMessages(context, chat.conversationHistory,
                                                           chat.message)]
     IN chat' = IF result.error THEN AfterSearchError(c) ELSE c
  /\ UNCHANGED <<chunkVars, call, storeVars, revision, run, runCount, lastSearch>>

\* the generation service answers: the 200 response, or the throw and the
\* 500 response of the catch block
GenerationReturn(outcome) ==
  /\ chat.pc = "generating"
  /\ chat' = IF outcome.ok
             THEN [chat EXCEPT !.pc = "responded", !.upstream = outcome.text,
                     !.response = OkResponse(outcome.text, chat.relevantChunks,
                                             chat.relevantKnowledge)]
             ELSE [chat EXCEPT !.pc = "responded", !.upstream = <<outcome.status>> \o outcome.text,
                     !.response = CatchResponse(UpstreamError(outcome))]
  /\ UNCHANGED <<chunkVars, call, storeVars, revision, run, runCount, lastSearch>>

\* sendMessage after invoke: data.response, or the fallback text when
\* invoke reports the non-2xx response as an error
ClientReceive ==
  /\ chat.pc = "responded"
  /\ chat' = [chat EXCEPT !.pc = "shown",
                          !.shown = IF chat.response.status = 200
                                    THEN chat.response.response ELSE FallbackText]
  /\ UNCHANGED <<chunkVars, call, storeVars, revision, run, runCount, lastSearch>>

NextChat ==
  \/ \E conversationHistory \in Histories : ChatRequest(<<"question">>, conversationHistory)
  \/ \E outcome \in {[ok |-> TRUE, status |-> "200", text |-> <<>>]} \cup UpstreamErrors :
       EmbedQuestion(outcome)
  \/ \E result \in RpcOutcomes(ChunkHits) : RpcSearchChunks(result)
  \/ \E result \in RpcOutcomes(KnowledgeHits) : RpcSearchKnowledge(result)
  \/ \E outcome \in GenerationOutcomes : GenerationReturn(outcome)
  \/ ClientReceive

InitChat == ChunkIdle /\ PipelineIdle

SpecChat == InitChat /\ [][NextChat]_vars

(***************************************************************************)
(* generateEmbedding as each function defines it: the text it is given and *)
(* the input it puts in the request to the embedding service.              *)
(***************************************************************************)
\* maxLength of generateEmbedding (8000 in the source), scaled to the texts
maxLength == 3

\* the functions that call the embedding service
Callers == {"process-document", "chat-with-talon", "process-url", "add-manual-knowledge"}

\* the copies of generateEmbedding that have the maxLength lines
Truncates(caller) == caller \in {"process-url", "add-manual-knowledge"}

\* text.length > maxLength ? text.substring(0, maxLength) : text
truncatedText(t) == IF Len(t) > maxLength THEN SubSeq(t, 1, maxLength) ELSE t

\* the input field of the request body
EmbeddingInput(caller, t) == IF Truncates(caller) THEN truncatedText(t) ELSE t

\* chunk contents, questions, page texts and manual entries
EmbedTexts == UNION {[1..n -> {"a", "b"}] : n \in 0..(maxLength + 1)}

\* one call of generateEmbedding by caller; the service answers or refuses
CallGenerateEmbedding(caller, t, ok) ==
  /\ call.fn = "none"
  /\ call' = [fn |-> "generateEmbedding", caller |-> caller, text |-> t,
              input |-> EmbeddingInput(caller, t), raised |-> ~ok]
  /\ UNCHANGED <<chunkVars, pipelineVars>>

NextEmbed ==
  \E caller \in Callers, t \in EmbedTexts, ok \in BOOLEAN : CallGenerateEmbedding(caller, t, ok)

SpecEmbed == InitChat /\ [][NextEmbed]_vars

(***************************************************************************)
(* parseCSVToText, in the form extractTextFromFile uses and in the form    *)
(* extractTextFromFileFallback uses.  The input is a sequence of           *)
(* characters; the output is a sequence of characters and literal pieces.  *)
(***************************************************************************)
\* the longest CSV text drawn, besides the scenario text
MaxCsvLen == 4

\* string.split(sep) for a one-character separator
RECURSIVE SplitBy(_, _)
SplitBy(t, sep) ==
  LET hits == {i \in 1..Len(t) : t[i] = sep}
  IN IF hits = {} THEN <<t>>
     ELSE LET i == CHOOSE h \in hits : \A g \in hits : h <= g
          IN <<SubSeq(t, 1, i - 1)>> \o SplitBy(SubSeq(t, i + 1, Len(t)), sep)

\* col.replace(/^"|"$/g, '')
StripQuotes(col) ==
  LET a == IF Len(col) > 0 /\ col[1] = "\"" THEN Tail(col) ELSE col
  IN IF Len(a) > 0 /\ a[Len(a)] = "\"" THEN SubSeq(a, 1, Len(a) - 1) ELSE a

\* array.join(sep)
RECURSIVE Join(_, _)
Join(parts, sep) ==
  IF Len(parts) = 0 THEN <<>>
  ELSE IF Len(parts) = 1 THEN parts[1]
  ELSE parts[1] \o <<sep>> \o Join(Tail(parts), sep)

\* line.split(',').map(col => col.trim().replace(/^"|"$/g, ''))
Columns(line) ==
  LET cols == SplitBy(line, ",") IN [k \in 1..Len(cols) |-> StripQuotes(Trim(cols[k]))]

\* the loop over lines: i is the 0-based index of the line, result the
\* array of output lines so far
RECURSIVE CsvLoop(_, _, _)
CsvLoop(lines, i, result) ==
  IF i >= Len(lines) THEN result
  ELSE LET line == Trim(lines[i + 1])
       IN IF Len(line) = 0 THEN CsvLoop(lines, i + 1, result)
          ELSE IF i = 0
          THEN CsvLoop(lines, i + 1,
                 Append(result, <<"Table Headers: ">> \o Join(Columns(line), ", ")))
          ELSE CsvLoop(lines, i + 1,
                 Append(result, <<"Row ", ToString(i), ": ">>
                                \o Join(Columns(line), " | ")))

parseCSVToText(csvContent) == Join(CsvLoop(SplitBy(csvContent, "\n"), 0, <<>>), "\n")

\* the loop of the copy beside extractTextFromFileFallback
RECURSIVE CsvFallbackLoop(_, _, _)
CsvFallbackLoop(lines, i, result) ==
  IF i >= Len(lines) THEN result
  ELSE LET line == Trim(lines[i + 1])
       IN IF Len(line) = 0 THEN CsvFallbackLoop(lines, i + 1, result)
          ELSE IF i = 0
          THEN CsvFallbackLoop(lines, i + 1, result \o <<"CSV Headers: ">> \o line \o <<"\n", "\n">>)
          ELSE CsvFallbackLoop(lines, i + 1,
                 result \o <<"Row ", ToString(i), ": ">> \o line \o <<"\n">>)

parseCSVToTextFallback(csvText) == CsvFallbackLoop(SplitBy(csvText, "\n"), 0, <<>>)

\* the CSV text "a,b\n1,2\n3,4"
ScenarioCsv == <<"a", ",", "b", "\n", "1", ",", "2", "\n", "3", ",", "4">>

CsvTexts ==
  {ScenarioCsv} \cup UNION {[1..n -> {"a", ",", "\n", " ", "\""}] : n \in 0..MaxCsvLen}

\* extractTextFromFile on a .csv file
CallParseCSVToText(csvContent) ==
  /\ call.fn = "none"
  /\ call' = [fn |-> "parseCSVToText", input |-> csvContent,
              output |-> parseCSVToText(csvContent)]
  /\ UNCHANGED <<chunkVars, pipelineVars>>

\* extractTextFromFileFallback on a .csv file
CallParseCSVToTextFallback(csvText) ==
  /\ call.fn = "none"
  /\ call' = [fn |-> "parseCSVToTextFallback", input |-> csvText,
              output |-> parseCSVToTextFallback(csvText)]
  /\ UNCHANGED <<chunkVars, pipelineVars>>

NextCsv ==
  /\ call.fn = "none"
  /\ \/ \E t \in CsvTexts : CallParseCSVToText(t)
     \/ \E t \in CsvTexts : CallParseCSVToTextFallback(t)

SpecCsv == InitChat /\ [][NextCsv]_vars

(***************************************************************************)
(* extractTextFromFile of the revision that parses documents itself.  A    *)
(* file is its extension, the outcome of writing it to the temporary path, *)
(* the outcome of reading it back, its bytes decoded as text (raw), the    *)
(* text its format's tags hold (tagged: BT..ET, w:t, t, a:t) and the text  *)
(* its runs of ten or more readable characters hold (readable).  A result  *)
(* is the returned text or a raised error.                                 *)
(***************************************************************************)
MinStructural == 20
MinReadable == 10
MinClean == 20
MinLegacy == 10
ReadableLimit == 5000

Letters(n) == [i \in 1..n |-> "a"]

YieldLens == {0, MinReadable - 1, MinReadable, MinReadable + 1, MinStructural - 1, MinStructural}

Yields == {Letters(n) : n \in YieldLens} \cup {<<" ">>}

RawTexts == Yields \cup {<<" ", "a", " ", " ", "a">>}

PlainExtensions == {"txt", "md", "json"}

\* the extensions extractTextFromFile hands to parseDocumentFile
ParsedExtensions == {"pdf", "docx", "doc", "xlsx", "xls", "pptx"}

Extensions == PlainExtensions \cup {"csv"} \cup ParsedExtensions \cup {"ppt", "bin"}

ExtractFiles ==
  {f \in [ext : Extensions, writeOk : BOOLEAN, reads : {"ok", "failsOnce", "fails"},
           raw : RawTexts, tagged : Yields, readable : Yields] :
     /\ Len(f.tagged) <= Len(f.raw)
     /\ Len(f.readable) <= Len(f.raw)}

Returns(t) == [raised |-> FALSE, text |-> t]

Raises == [raised |-> TRUE, text |-> <<>>]

\* filePath.split('/').pop()
BaseName(f) == "file." \o f.ext

\* text.replace(control characters, ' ').replace(/\s+/g, ' ').trim()
RECURSIVE CollapseWhitespace(_)
CollapseWhitespace(t) ==
  IF Len(t) = 0 THEN <<>>
  ELSE IF t[1] \in Whitespace
  THEN IF Len(t) > 1 /\ t[2] \in Whitespace THEN CollapseWhitespace(Tail(t))
       ELSE <<" ">> \o CollapseWhitespace(Tail(t))
  ELSE <<t[1]>> \o CollapseWhitespace(Tail(t))

CleanText(t) == Trim(CollapseWhitespace(t))

\* string.substring(0, n)
Substring(t, n) == SubSeq(t, 1, Min(Len(t), n))

parsePDFFile(f) ==
  LET strategy1 == f.tagged
      strategy2 == IF Len(Trim(strategy1)) < MinStructural
                   THEN Substring(f.readable, ReadableLimit) ELSE strategy1
      extractedText == IF Len(Trim(strategy2)) < MinReadable
                       THEN <<"PDF Document: ", BaseName(f), " - This document contains content that could not be automatically extracted. Manual review may be required.">>
                       ELSE strategy2
  IN Returns(Trim(extractedText))

parseWordFile(f) ==
  IF f.ext = "docx"
  THEN LET strategy1 == f.tagged
           strategy2 == IF Len(Trim(strategy1)) < MinStructural THEN f.readable ELSE strategy1
           extractedText == IF Len(Trim(strategy2)) < MinReadable
                            THEN <<"Word Document: ", BaseName(f), " - This document contains content that could not be automatically extracted.">>
                            ELSE strategy2
       IN Returns(Trim(extractedText))
  ELSE LET cleanText == CleanText(f.raw)
       IN Returns(IF Len(cleanText) > MinLegacy THEN Substring(cleanText, ReadableLimit)
                  ELSE <<"Word Document: ", BaseName(f), " - Legacy format document content.">>)

parseExcelFile(f) ==
  IF f.ext = "xlsx"
  THEN Returns(IF Len(Trim(f.tagged)) > 0 THEN <<"Excel Content: ">> \o Trim(f.tagged)
               ELSE <<"No readable content found in Excel file">>)
  ELSE Returns(CleanText(f.raw))

parsePowerPointFile(f) ==
  Returns(IF Len(Trim(f.tagged)) > 0 THEN Trim(f.tagged)
          ELSE <<"No readable text found in PowerPoint file">>)

\* the parser chosen by extension; each parser begins with Deno.readFile
Parser(f) ==
  IF f.reads # "ok" THEN Raises
  ELSE IF f.ext = "pdf" THEN parsePDFFile(f)
  ELSE IF f.ext \in {"docx", "doc"} THEN parseWordFile(f)
  ELSE IF f.ext \in {"xlsx", "xls"} THEN parseExcelFile(f)
  ELSE parsePowerPointFile(f)

parseDocumentFile(f) ==
  IF ~Parser(f).raised THEN Parser(f)
  ELSE IF f.reads = "fails" THEN Raises
  ELSE IF Len(CleanText(f.raw)) < MinClean THEN Raises
  ELSE Returns(CleanText(f.raw))

extractTextFromFile(f) ==
  IF f.ext \in PlainExtensions THEN Returns(f.raw)
  ELSE IF f.ext = "csv" THEN Returns(parseCSVToText(f.raw))
  ELSE IF f.ext \in ParsedExtensions
  THEN IF ~f.writeOk THEN Raises ELSE parseDocumentFile(f)
  ELSE Returns(f.raw)

CallExtractTextFromFile(f) ==
  /\ call.fn = "none"
  /\ call' = [fn |-> "extractTextFromFile", file |-> f, result |-> extractTextFromFile(f)]
  /\ UNCHANGED <<chunkVars, pipelineVars>>

NextExtract ==
  /\ call.fn = "none"
  /\ \E f \in ExtractFiles : CallExtractTextFromFile(f)

SpecExtract == InitChat /\ [][NextExtract]_vars

(***************************************************************************)
(* convertToMarkdownWithUnstructured and extractTextFromFileFallback of    *)
(* the revision that converts through the external service.  A service    *)
(* outcome is: the key is not configured, fetch rejects, the response is   *)
(* not OK, or the response is a list of elements.  An element whose text   *)
(* is not a string (valid = FALSE) makes element.text.trim() throw.        *)
(***************************************************************************)
\* the longest list of elements drawn
MaxElements == 2

ElementTypes == {"Title", "Header", "SubHeader", "Table", "ListItem", "NarrativeText"}

\* the elements with a string as text, and one element whose text is no string
Elements ==
  [type : ElementTypes, text : {<<>>, <<" ">>, <<"a">>}, valid : {TRUE}]
    \cup {[type |-> "Title", text |-> <<"a">>, valid |-> FALSE]}

ServiceOutcomes ==
  {[kind |-> k, elements |-> <<>>] : k \in {"notConfigured", "rejected", "notOk"}}
    \cup {[kind |-> "elements", elements |-> es] :
            es \in UNION {[1..n -> Elements] : n \in 0..MaxElements}}

ConvertFiles ==
  [ext : {"txt", "csv", "pdf", "bin"}, textOk : BOOLEAN,
   raw : {<<>>, <<"a">>, <<"a", ",", "a", "\n", "a">>}]

UpperCase == [txt |-> "TXT", csv |-> "CSV", pdf |-> "PDF", bin |-> "BIN"]

\* the placeholder returned for binary documents
basicContent(f) ==
  <<"Document: ", BaseName(f), "\n", "File Size: ", ToString(Len(f.raw)), " bytes", "\n",
    "Type: ", UpperCase[f.ext], " document", "\n", "\n",
    "This document was uploaded successfully but requires the Unstructured.io API for full content extraction.">>

extractTextFromFileFallback(f) ==
  IF f.ext \in PlainExtensions THEN Returns(f.raw)
  ELSE IF f.ext = "csv" THEN Returns(parseCSVToTextFallback(f.raw))
  ELSE IF f.ext \in ParsedExtensions THEN Returns(basicContent(f))
  ELSE IF f.textOk THEN Returns(f.raw) ELSE Raises

\* the text one element adds to markdownContent
ElementMarkdown(element) ==
  IF Len(Trim(element.text)) = 0 THEN <<>>
  ELSE IF element.type = "Title" THEN <<"#", " ">> \o element.text \o <<"\n", "\n">>
  ELSE IF element.type = "Header" THEN <<"#", "#", " ">> \o element.text \o <<"\n", "\n">>
  ELSE IF element.type = "SubHeader" THEN <<"#", "#", "#", " ">> \o element.text \o <<"\n", "\n">>
  ELSE IF element.type = "ListItem" THEN <<"-", " ">> \o element.text \o <<"\n">>
  ELSE element.text \o <<"\n", "\n">>

\* the loop over the elements: the markdown built so far, and whether an
\* element made the loop throw
RECURSIVE ElementsLoop(_, _)
ElementsLoop(elements, markdownContent) ==
  IF Len(elements) = 0 THEN [thrown |-> FALSE, markdownContent |-> markdownContent]
  ELSE IF ~elements[1].valid THEN [thrown |-> TRUE, markdownContent |-> markdownContent]
  ELSE ElementsLoop(Tail(elements), markdownContent \o ElementMarkdown(elements[1]))

\* what a failure path returns if it kept the markdown built so far
ServiceFallback_KeepsPartial(markdownContent, f) ==
  LET local == extractTextFromFileFallback(f)
  IN [local EXCEPT !.text = markdownContent \o @]

\* what every failure path returns: the fallback extraction alone
ServiceFallback(markdownContent, f) == extractTextFromFileFallback(f)

convertToMarkdownWithUnstructured(f, service) ==
  IF service.kind = "notConfigured" THEN extractTextFromFileFallback(f)
  ELSE IF service.kind \in {"rejected", "notOk"} THEN ServiceFallback(<<>>, f)
  ELSE LET loop == ElementsLoop(service.elements, <<>>)
       IN IF loop.thrown THEN ServiceFallback(loop.markdownContent, f)
          ELSE IF Len(Trim(loop.markdownContent)) = 0 THEN ServiceFallback(loop.markdownContent, f)
          ELSE Returns(Trim(loop.markdownContent))

CallConvertToMarkdown(f, service) ==
  /\ call.fn = "none"
  /\ call' = [fn |-> "convertToMarkdownWithUnstructured", file |-> f, service |-> service,
              result |-> convertToMarkdownWithUnstructured(f, service)]
  /\ UNCHANGED <<chunkVars, pipelineVars>>

NextConvert ==
  /\ call.fn = "none"
  /\ \E f \in ConvertFiles, service \in ServiceOutcomes : CallConvertToMarkdown(f, service)

SpecConvert == InitChat /\ [][NextConvert]_vars

(***************************************************************************)
(* Properties of the process-document handler (checked under Spec).        *)
(***************************************************************************)
\* the invocation on d is the one that found d pending
RunFromPending(d) == d \in Uploaded /\ run[d].ordinal = 1

Failed == {"embedFailed", "insertFailed"}

\* C1: a run on a pending Document sets processing before the download and
\* the extraction, ends with completed or failed, never sets the status
\* back to pending and never turns completed into failed or failed into
\* completed.
C1_StatusMachine ==
  /\ [](\A d \in Docs : RunFromPending(d) =>
          /\ run[d].pc \in {"download", "extract"} => upload_status[d] = "processing"
          /\ run[d].pc = "returned" => upload_status[d] \in {"completed", "failed"})
  /\ [][\A d \in Docs : (RunFromPending(d) /\ run'[d].ordinal = 1) =>
          /\ upload_status'[d] # "pending"
          /\ ~(upload_status[d] = "completed" /\ upload_status'[d] = "failed")
          /\ ~(upload_status[d] = "failed" /\ upload_status'[d] = "completed")]_vars

\* C2: a run whose download fails, whose extraction raises or whose text is
\* blank ends with the Document failed, and the Document is not completed
\* at any point of that run.
C2_FailureEndsFailed ==
  \A d \in Docs :
    (RunFromPending(d) /\ run[d].error \in {"download", "extract", "empty"}) =>
      /\ upload_status[d] # "completed"
      /\ run[d].pc = "returned" => upload_status[d] = "failed"

\* C3: in the step that sets a Document completed, every chunk of the run
\* has a settled task: no embedding call or insert is in flight or not yet
\* started.
C3_CompletedAfterAllAttempts ==
  [][\A d \in Docs :
       (upload_status'[d] = "completed" /\ run[d].pc = "complete") =>
         /\ Len(run[d].task) = Len(run[d].chunks)
         /\ \A k \in DOMAIN run[d].task : run[d].task[k] \in Settled]_vars

\* a run of three chunks completed with a failed and a stored chunk
C3_Witness ==
  /\ upload_status["d1"] = "completed"
  /\ run["d1"].pc = "returned"
  /\ Len(run["d1"].task) = 3
  /\ \E j, k \in DOMAIN run["d1"].task :
       run["d1"].task[j] \in Failed /\ run["d1"].task[k] = "inserted"

\* C4: the step in which the embedding or the insert of one chunk fails
\* changes nothing but that chunk's task (the other tasks, the position of
\* the handler and the stored rows stay as they are), no step removes a
\* stored row, and a handler that leaves the loop has attempted every chunk
\* and stored each chunk whose two calls succeeded.
C4_FailureLeavesSiblings ==
  [][/\ \A d \in Docs : \A k \in DOMAIN run[d].task :
          (/\ run'[d].ordinal = run[d].ordinal
           /\ k \in DOMAIN run'[d].task
           /\ run[d].task[k] \notin Failed
           /\ run'[d].task[k] \in Failed) =>
             /\ run'[d] = [run[d] EXCEPT !.task[k] = run'[d].task[k]]
             /\ document_chunks' = document_chunks
     /\ document_chunks \subseteq document_chunks'
     /\ \A d \in Docs :
          (run[d].pc = "batch" /\ run'[d].pc = "complete") =>
             \A k \in DOMAIN run[d].task :
               /\ run[d].task[k] \in Settled
               /\ run[d].task[k] = "inserted" => ChunkRow(d, run[d], k) \in document_chunks
    ]_vars

\* the first chunk failed; its sibling and the chunk of the next batch are stored
C4_Witness ==
  /\ run["d1"].pc = "returned"
  /\ Len(run["d1"].task) = 3
  /\ run["d1"].task[1] \in Failed
  /\ ChunkRow("d1", run["d1"], 2) \in document_chunks
  /\ ChunkRow("d1", run["d1"], 3) \in document_chunks

\* the run on d has returned and the embedding call failed for each of its chunks
AllEmbedsFailed(d) ==
  /\ run[d].pc = "returned"
  /\ run[d].error \notin {"download", "extract", "empty"}
  /\ Len(run[d].task) >= 1
  /\ \A k \in DOMAIN run[d].task : run[d].task[k] = "embedFailed"

\* the rows a search may return for the arguments of chat-with-talon
Returned(q) ==
  UNION {{rows[j] : j \in DOMAIN rows} :
           rows \in search_chunks(q, MatchThreshold, ChunkMatchCount)}

C6_SearchOnlyCompleted ==
  \A q \in Vec : \A dc \in Returned(q) : upload_status[dc.document_id] = "completed"

\* d1 is processing with stored chunks while a search returns seed chunks
C6_Witness ==
  /\ upload_status["d1"] = "processing"
  /\ \E dc \in document_chunks : dc.document_id = "d1"
  /\ upload_status["seed"] = "completed"
  /\ \E q \in Vec : Returned(q) # {}

\* the tasks of the run on d whose embedding call is in flight
InFlight(d) == {k \in DOMAIN run[d].task : run[d].task[k] = "embedding"}

\* the group (0, 1, ...) of the k-th chunk
Group(k) == (k - 1) \div batchSize

\* C13: at most batchSize embedding calls of one run are in flight; the
\* embedding call of a chunk of a later group starts only in the step that
\* ends the pause, when every chunk of the earlier groups has settled; and
\* the handler pauses after a group exactly when a later group is left.
C13_BatchedEmbedding ==
  /\ [](\A d \in Docs : Cardinality(InFlight(d)) <= batchSize)
  /\ [][\A d \in Docs : run'[d].ordinal = run[d].ordinal =>
          /\ \A k \in DOMAIN run'[d].task :
               (/\ run'[d].task[k] = "embedding"
                /\ k \in DOMAIN run[d].task => run[d].task[k] = "notStarted") =>
                  \/ Group(k) = 0 /\ run[d].pc = "extract"
                  \/ /\ Group(k) > 0
                     /\ run[d].pc = "pause"
                     /\ \A j \in DOMAIN run[d].task :
                          Group(j) < Group(k) => run[d].task[j] \in Settled
          /\ (run[d].pc = "batch" /\ run'[d].pc \notin {"batch", "abandoned"}) =>
               /\ run'[d].pc \in {"pause", "complete"}
               /\ run'[d].pc = "pause" <=>
                    \E j \in DOMAIN run[d].task : run[d].task[j] = "notStarted"
          /\ (run[d].pc # "pause" /\ run'[d].pc = "pause") => run[d].pc = "batch"]_vars

\* the second group was started after a pause that followed a failed chunk
C13_Witness ==
  /\ run["d1"].pc = "batch"
  /\ run["d1"].i = batchSize
  /\ run["d1"].task[1] \in Failed
  /\ InFlight("d1") # {}

\* the rows stored for document d
ChunksOf(d) == {dc \in document_chunks : dc.document_id = d}

\* C14: when a run has ended with the Document completed, the chunk_index
\* values of the rows stored for the Document are exactly 0 .. n-1, n being
\* the number of those rows.
C14_DenseIndexes ==
  \A d \in Docs :
    (run[d].pc = "returned" /\ upload_status[d] = "completed") =>
      {dc.chunk_index : dc \in ChunksOf(d)} = 0..(Cardinality(ChunksOf(d)) - 1)

\* C15: no two stored rows have the same document_id and chunk_index,
\* whatever runs have been made.
C15_UniqueChunkKey ==
  \A a, b \in document_chunks :
    (a.document_id = b.document_id /\ a.chunk_index = b.chunk_index) => a = b

\* C16: the maintenance pass turns every processing Document failed and
\* changes no other status, no chunk, no knowledge entry and no run; and the
\* status of a Document whose run was abandoned changes only in a
\* maintenance pass or when a new run is requested for it.
C16_MaintenancePass ==
  [][/\ MaintenancePass =>
          /\ \A d \in Docs :
               /\ upload_status[d] = "processing" => upload_status'[d] = "failed"
               /\ upload_status[d] # "processing" => upload_status'[d] = upload_status[d]
          /\ document_chunks' = document_chunks
          /\ knowledge_base' = knowledge_base
          /\ run' = run
     /\ \A d \in Docs :
          (run[d].pc = "abandoned" /\ upload_status'[d] # upload_status[d]) =>
             \/ MaintenancePass
             \/ StartRun(d)
     /\ \A d \in Docs :
          run[d].pc = "abandoned" =>
             \/ run'[d].pc = "abandoned" /\ run'[d].ordinal = run[d].ordinal
             \/ StartRun(d)
    ]_vars

\* the pass has turned a Document failed whose run was abandoned with a
\* chunk stored, while the completed Document kept its status
C16_Witness ==
  /\ run["d1"].pc = "abandoned"
  /\ upload_status["d1"] = "failed"
  /\ ChunksOf("d1") # {}
  /\ upload_status["seed"] = "completed"

(***************************************************************************)
(* Properties of the search functions (checked under SpecSearch).          *)
(***************************************************************************)
\* the rows the last call had to choose from
Eligible ==
  IF lastSearch.fn = "search_chunks"
  THEN {dc \in document_chunks :
          /\ upload_status[dc.document_id] = "completed"
          /\ dc.embedding # NULL
          /\ Similarity(dc.embedding, lastSearch.query_embedding) > lastSearch.match_threshold}
  ELSE {kb \in knowledge_base :
          /\ kb.embedding # NULL
          /\ Similarity(kb.embedding, lastSearch.query_embedding) > lastSearch.match_threshold}

\* the rows of the searched table that have an embedding (and a completed parent)
Stored ==
  IF lastSearch.fn = "search_chunks"
  THEN {dc \in document_chunks :
          upload_status[dc.document_id] = "completed" /\ dc.embedding # NULL}
  ELSE {kb \in knowledge_base : kb.embedding # NULL}

\* C7: both searches return only rows of similarity above the threshold, at
\* most top_k of them, the most similar ones, in non-increasing similarity;
\* of two stored rows of similarity 0.82 and 0.65 a search with threshold
\* 0.7 returns exactly the first.
C7_SearchContract ==
  lastSearch.fn # "none" =>
    LET rows == lastSearch.rows
        sim(r) == Similarity(r.embedding, lastSearch.query_embedding)
    IN /\ \A j \in DOMAIN rows : rows[j] \in Eligible
       /\ \A j \in DOMAIN rows : sim(rows[j]) > lastSearch.match_threshold
       /\ Len(rows) <= lastSearch.match_count
       /\ Len(rows) = Min(lastSearch.match_count, Cardinality(Eligible))
       /\ \A j, k \in DOMAIN rows : j < k => rows[j] # rows[k] /\ sim(rows[j]) >= sim(rows[k])
       /\ \A r \in Eligible :
            (\A j \in DOMAIN rows : rows[j] # r) => \A j \in DOMAIN rows : sim(rows[j]) >= sim(r)
       /\ (/\ lastSearch.match_threshold = 70
           /\ Cardinality(Stored) = 2
           /\ {sim(r) : r \in Stored} = {82, 65}) =>
             /\ Len(rows) = 1
             /\ sim(rows[1]) = 82

\* search_chunks, threshold 0.7, on two chunks of similarity 0.82 and 0.65
C7_Witness ==
  /\ lastSearch.fn = "search_chunks"
  /\ lastSearch.match_threshold = 70
  /\ Cardinality(document_chunks) = 2
  /\ Stored = document_chunks
  /\ {Similarity(r.embedding, lastSearch.query_embedding) : r \in Stored} = {82, 65}
  /\ Len(lastSearch.rows) = 1

(***************************************************************************)
(* Properties of the chunkers (checked under SpecChunk).                   *)
(***************************************************************************)
\* positions (0-based) of text that lie in the window of chunk c
InWindow(c, p) == c.startIndex <= p /\ p < c.endIndex

ContentIsTrimmedSlice ==
  \A k \in 1..Len(chunks) :
    chunks[k].content = Trim(Slice(text, chunks[k].startIndex, chunks[k].endIndex))

NonBlankCovered ==
  \A p \in 0..(Len(text) - 1) :
    text[p + 1] \notin Whitespace => \E k \in 1..Len(chunks) : InWindow(chunks[k], p)

\* C8 (as stated): for overlap < max_size the chunks of chunkText cover the
\* text: every content is the trimmed slice of its window, every next chunk
\* starts at or before the end of the previous one, and every non-whitespace
\* position lies in some window.
C8_ChunksCoverText ==
  (chunker = "chunkText" /\ overlap < maxChunkSize) =>
    /\ ContentIsTrimmedSlice
    /\ \A k \in 1..(Len(chunks) - 1) : chunks[k + 1].startIndex <= chunks[k].endIndex
    /\ NonBlankCovered

\* C8 (amended): as above, but two consecutive emitted chunks may be
\* separated by a stretch of text that is whitespace only (windows that trim
\* to empty are skipped).
C8_ChunksCoverTextUpToBlank ==
  (chunker = "chunkText" /\ overlap < maxChunkSize) =>
    /\ ContentIsTrimmedSlice
    /\ \A k \in 1..(Len(chunks) - 1) :
         \/ chunks[k + 1].startIndex <= chunks[k].endIndex
         \/ \A p \in chunks[k].endIndex..(chunks[k + 1].startIndex - 1) :
              text[p + 1] \in Whitespace
    /\ NonBlankCovered

\* a text whose chunks are separated by a skipped whitespace-only window
C8_Witness ==
  /\ chunker = "chunkText" /\ overlap < maxChunkSize
  /\ \E k \in 1..(Len(chunks) - 1) : chunks[k + 1].startIndex > chunks[k].endIndex

\* C9: no chunk emitted by chunkText or chunkMarkdown is empty after
\* trimming, and every emitted chunk has start_offset < end_offset.
C9_NoEmptyChunk ==
  chunker \in {"chunkText", "chunkMarkdown"} =>
    \A k \in 1..Len(chunks) :
      /\ Len(Trim(chunks[k].content)) > 0
      /\ chunks[k].startIndex < chunks[k].endIndex

\* C10: chunkText returns no chunk for a text of length 0 and exactly one
\* chunk, spanning the whole input, for a text that is not blank and no
\* longer than max_size, whatever the overlap.
C10_ShortInputOneChunk ==
  chunker = "chunkText" =>
    /\ Len(text) = 0 => chunks = <<>>
    /\ (Len(Trim(text)) > 0 /\ Len(text) <= maxChunkSize) =>
         /\ Len(chunks) = 1
         /\ chunks[1].startIndex = 0
         /\ chunks[1].endIndex = Len(text)

\* C11: chunkText applied with the same max_size and overlap to the content
\* of a chunk it emitted, that content being no longer than max_size, returns
\* at most one chunk, and the content of that chunk is the content given.
C11_RechunkIsIdentity ==
  (chunker = "reChunkText" /\ Len(text) <= maxChunkSize) =>
    /\ Len(chunks) <= 1
    /\ \A k \in 1..Len(chunks) : chunks[k].content = text

(***************************************************************************)
(* Properties of the loop of chunkText (checked under SpecChunkLoop).      *)
(***************************************************************************)
\* C12: chunkText terminates for every text, every max_size >= 1 and every
\* overlap >= 0, overlap >= max_size included: every iteration of the loop
\* strictly increases startIndex, the chunks emitted have strictly
\* increasing start offsets, there are at most len(text) of them, and the
\* call returns.
C12_ChunkTextTerminates ==
  /\ [][(chunker = "chunkText.loop" /\ chunker' = "chunkText.loop") =>
          startIndex' > startIndex]_vars
  /\ [](chunker \in {"chunkText.loop", "chunkText.returned"} =>
          /\ \A j, k \in 1..Len(chunks) : j < k => chunks[j].startIndex < chunks[k].startIndex
          /\ Len(chunks) <= Len(text))
  /\ <>(chunker = "chunkText.returned")

\* a call with overlap >= max_size that returned one chunk per character
C12_Witness ==
  /\ chunker = "chunkText.returned"
  /\ overlap >= maxChunkSize
  /\ Len(text) >= 3
  /\ Len(chunks) = Len(text)

(***************************************************************************)
(* Properties of the chat handler (checked under SpecChat).                *)
(***************************************************************************)
\* the generation request of the chat request has been sent
GenerationRequested == chat.messages # <<>>

\* the handler has answered the chat request
Responded == chat.pc \in {"responded", "shown"}

\* piece occurs in the string
Contains(string, piece) == \E j \in 1..Len(string) : string[j] = piece

\* C17: when search_chunks or search_knowledge returned an error, the
\* handler still sent the generation request and answers 200 unless the
\* generation service itself failed; the failed search counts zero results
\* and its header is not in the context, and the context is exactly the
\* section of the other search.
C17_SearchErrorDegrades ==
  (Responded /\ (chat.relevantChunks.error \/ chat.relevantKnowledge.error)) =>
    /\ GenerationRequested
    /\ chat.response.status = 200 \/ chat.response.details[1] = "OpenAI API error: "
    /\ chat.relevantChunks.error =>
         /\ ~Contains(chat.context, "Relevant document excerpts:\n\n")
         /\ chat.response.status = 200 => chat.response.contextsUsed.documentChunks = 0
         /\ chat.context =
              IF chat.relevantKnowledge.error \/ Len(chat.relevantKnowledge.data) = 0
              THEN <<>>
              ELSE <<"Relevant knowledge base entries:\n\n">>
                   \o RenderKnowledge(chat.relevantKnowledge.data, 1)
    /\ chat.relevantKnowledge.error =>
         /\ ~Contains(chat.context, "Relevant knowledge base entries:\n\n")
         /\ chat.response.status = 200 => chat.response.contextsUsed.knowledgeEntries = 0
         /\ chat.context =
              IF chat.relevantChunks.error \/ Len(chat.relevantChunks.data) = 0
              THEN <<>>
              ELSE <<"Relevant document excerpts:\n\n">>
                   \o RenderChunks(chat.relevantChunks.data, 1)

\* search_chunks failed, search_knowledge returned two entries, and the
\* answer of the generation service reached the conversation
C17_Witness ==
  /\ chat.pc = "shown"
  /\ chat.relevantChunks.error
  /\ ~chat.relevantKnowledge.error /\ Len(chat.relevantKnowledge.data) = 2
  /\ chat.response.status = 200
  /\ chat.shown = <<"answer">>

\* C18: when the generation service returned an error, the conversation
\* shows the fixed fallback text, and the response of the chat endpoint
\* carries neither the status nor the body of the upstream error.
C18_GenerationErrorGeneric ==
  (Responded /\ GenerationRequested /\ chat.response.status # 200) =>
    /\ chat.pc = "shown" => chat.shown = FallbackText
    /\ \A j \in 1..Len(chat.upstream) :
         /\ ~Contains(chat.response.details, chat.upstream[j])
         /\ ~Contains(chat.response.error, chat.upstream[j])

\* C19: the context is the excerpts section followed by the knowledge
\* section; a section is its header followed by one item per returned row,
\* in the order returned, numbered from 1 ("[n] content", "[KBn] title:
\* content"), and is absent exactly when its search returned no row; the
\* counts of a 200 response are the numbers of items of the two sections.
C19_ContextBlock ==
  GenerationRequested =>
    LET chunkRows == chat.relevantChunks.data
        knowledgeRows == chat.relevantKnowledge.data
        nc == Len(chunkRows)
        nk == Len(knowledgeRows)
        len1 == IF nc = 0 THEN 0 ELSE 1 + 5 * nc
        len2 == IF nk = 0 THEN 0 ELSE 1 + 7 * nk
    IN /\ Len(chat.context) = len1 + len2
       /\ nc > 0 => chat.context[1] = "Relevant document excerpts:\n\n"
       /\ \A n \in 1..nc :
            SubSeq(chat.context, 5 * n - 3, 5 * n + 1) =
              <<"[", ToString(n), "] ", chunkRows[n].content, "\n\n">>
       /\ nk > 0 => chat.context[len1 + 1] = "Relevant knowledge base entries:\n\n"
       /\ \A n \in 1..nk :
            SubSeq(chat.context, len1 + 7 * n - 5, len1 + 7 * n + 1) =
              <<"[KB", ToString(n), "] ", knowledgeRows[n].title, ": ",
                knowledgeRows[n].content, "\n\n">>
       /\ (nc = 0 /\ nk = 0) => chat.context = <<>>
       /\ chat.response.status = 200 =>
            /\ chat.response.contextsUsed.documentChunks = nc
            /\ chat.response.contextsUsed.knowledgeEntries = nk

\* both searches returned two rows and the handler answered 200
C19_Witness ==
  /\ chat.response.status = 200
  /\ Len(chat.relevantChunks.data) = 2
  /\ Len(chat.relevantKnowledge.data) = 2
  /\ chat.relevantChunks.data[1] # chat.relevantChunks.data[2]

\* C20: the message list is one system message, the last 6 entries of the
\* supplied history in their order (all of fewer than 6, none of an absent
\* history), and the new user message last; the system message carries the
\* context after the persona when the context is not empty and only the
\* persona and the closing instruction when it is; the text of the
\* generation service is the response and what the conversation shows.
C20_MessageList ==
  GenerationRequested =>
    LET h == IF chat.conversationHistory.present
             THEN chat.conversationHistory.entries ELSE <<>>
        n == Len(h)
        m == Min(n, 6)
        system == chat.messages[1].content
    IN /\ Len(chat.messages) = m + 2
       /\ chat.messages[1].role = "system"
       /\ \A j \in 2..Len(chat.messages) : chat.messages[j].role # "system"
       /\ \A j \in 1..m : chat.messages[1 + j] = h[n - m + j]
       /\ chat.messages[m + 2] = [role |-> "user", content |-> chat.message]
       /\ IF chat.context = <<>>
          THEN Len(system) = 2
          ELSE /\ Len(system) = Len(chat.context) + 3
               /\ SubSeq(system, 3, Len(system) - 1) = chat.context
       /\ chat.response.status = 200 =>
            /\ chat.response.response = chat.upstream
            /\ chat.pc = "shown" => chat.shown = chat.upstream

\* a history of seven entries, of which the last six were sent, and the
\* answer shown
C20_Witness ==
  /\ chat.pc = "shown"
  /\ chat.response.status = 200
  /\ chat.conversationHistory.present
  /\ Len(chat.conversationHistory.entries) = 7
  /\ Len(chat.messages) = 8
  /\ chat.context # <<>>

(***************************************************************************)
(* Properties of generateEmbedding (checked under SpecEmbed).              *)
(***************************************************************************)
\* C21: whoever calls generateEmbedding, the input sent to the embedding
\* service is no longer than maxLength: it is the text itself when the text
\* is that short and the first maxLength characters of it otherwise.
C21_EmbeddingInputBounded ==
  call.fn = "generateEmbedding" =>
    /\ Len(call.input) <= maxLength
    /\ call.input = SubSeq(call.text, 1, Min(Len(call.text), maxLength))

(***************************************************************************)
(* Properties of the CSV extraction (checked under SpecCsv).               *)
(***************************************************************************)
\* the lines of the input that are not blank, trimmed, in order
RECURSIVE NonBlankLines(_)
NonBlankLines(lines) ==
  IF Len(lines) = 0 THEN <<>>
  ELSE (IF Len(Trim(lines[1])) = 0 THEN <<>> ELSE <<Trim(lines[1])>>)
       \o NonBlankLines(Tail(lines))

\* the output lines the format prescribes for the rows of the input
ExpectedCsvLines(csvContent) ==
  LET rows == NonBlankLines(SplitBy(csvContent, "\n"))
  IN [k \in 1..Len(rows) |->
        IF k = 1 THEN <<"Table Headers: ">> \o Join(Columns(rows[1]), ", ")
        ELSE <<"Row ", ToString(k - 1), ": ">> \o Join(Columns(rows[k]), " | ")]

\* C26: for every CSV text, in both forms of parseCSVToText, the output is
\* the header row as "Table Headers: " and its columns joined by ", ",
\* then the N-th row after it as "Row N: " and its columns joined by " | ";
\* for "a,b\n1,2\n3,4" these are "Table Headers: a, b", "Row 1: 1 | 2" and
\* "Row 2: 3 | 4".
C26_CsvFormat ==
  call.fn \in {"parseCSVToText", "parseCSVToTextFallback"} =>
    /\ SplitBy(call.output, "\n") = ExpectedCsvLines(call.input)
         \/ (call.output = <<>> /\ ExpectedCsvLines(call.input) = <<>>)
    /\ call.input = ScenarioCsv =>
         /\ SplitBy(call.output, "\n")[1] = <<"Table Headers: ", "a", ", ", "b">>
         /\ SplitBy(call.output, "\n")[2] = <<"Row ", "1", ": ", "1", " | ", "2">>

(***************************************************************************)
(* Properties of extractTextFromFile (checked under SpecExtract).          *)
(***************************************************************************)
OfficeExtensions == {"pdf", "doc", "docx", "xls", "xlsx", "ppt", "pptx"}

\* C22: for a file with a binary office extension, extraction does not
\* raise and does not return empty or whitespace-only text.
C22_OfficeExtractionNeverFails ==
  (call.fn = "extractTextFromFile" /\ call.file.ext \in OfficeExtensions) =>
    /\ ~call.result.raised
    /\ Len(Trim(call.result.text)) > 0

(***************************************************************************)
(* Properties of convertToMarkdownWithUnstructured (under SpecConvert).    *)
(***************************************************************************)
\* the elements that carry text
TextElements(service) ==
  {k \in 1..Len(service.elements) : Len(Trim(service.elements[k].text)) > 0}

\* the configured service failed: the request was rejected, the response
\* was not OK, an element could not be read, or no element carries text
ServiceFailed(service) ==
  \/ service.kind \in {"rejected", "notOk"}
  \/ /\ service.kind = "elements"
     /\ \/ \E k \in 1..Len(service.elements) : ~service.elements[k].valid
        \/ TextElements(service) = {}

\* C23: when the configured service fails, the result is exactly the
\* result of extractTextFromFileFallback on the same file: no service
\* output is in it, and it raises only if the fallback raises.
C23_ServiceFailureFallsBack ==
  (call.fn = "convertToMarkdownWithUnstructured" /\ ServiceFailed(call.service)) =>
    call.result = extractTextFromFileFallback(call.file)

\* the service delivered an element with text and then an unreadable one,
\* and the result is the fallback's text for a CSV file
C23_Witness ==
  /\ call.fn = "convertToMarkdownWithUnstructured"
  /\ call.service.kind = "elements"
  /\ Len(call.service.elements) = 2
  /\ call.service.elements[1].valid /\ call.service.elements[1].text = <<"a">>
  /\ ~call.service.elements[2].valid
  /\ call.file.ext = "csv" /\ Len(call.file.raw) > 1
  /\ ~call.result.raised
  /\ call.result.text = parseCSVToTextFallback(call.file.raw)

(***************************************************************************)
(* Properties of the retrieval per user (checked under SpecIsolation).     *)
(***************************************************************************)
\* the store without the rows owned by other users
OwnChunks(user) == {dc \in document_chunks : documents_user_id[dc.document_id] = user}

OwnKnowledge(user) == {kb \in knowledge_base : kb.user_id = user}

\* C24: the rows a chat request retrieves are owned by the requesting
\* user, and they are rows the same request retrieves from the store
\* without the rows of other users.
C24_ContextOnlyOwnRows ==
  call.fn = "chat-with-talon" =>
    /\ \A k \in 1..Len(call.relevantChunks) :
         documents_user_id[call.relevantChunks[k].document_id] = call.user
    /\ \A k \in 1..Len(call.relevantKnowledge) :
         call.relevantKnowledge[k].user_id = call.user
    /\ call.relevantChunks \in
         OrderLimit(MatchingChunks(OwnChunks(call.user), call.query_embedding, MatchThreshold),
                    call.query_embedding, Limit(ChunkMatchCount))
    /\ call.relevantKnowledge \in
         OrderLimit(MatchingKnowledge(OwnKnowledge(call.user), call.query_embedding, MatchThreshold),
                    call.query_embedding, Limit(KnowledgeMatchCount))

(***************************************************************************)
(* The scenario call of chunkText (checked under SpecChunk).               *)
(***************************************************************************)
ScenarioCalled ==
  /\ chunker = "chunkText"
  /\ text = Scenario.text
  /\ maxChunkSize = Scenario.maxChunkSize
  /\ overlap = Scenario.overlap

\* C25: chunkText("A. B. C.", 4, 1) returns at least two chunks, none of
\* them empty, and the first chunk starts at offset 0.
C25_ScenarioChunks ==
  ScenarioCalled =>
    /\ Len(chunks) >= 2
    /\ \A k \in 1..Len(chunks) : Len(chunks[k].content) > 0
    /\ chunks[1].startIndex = 0

\* the scenario call has returned its three chunks "A. B.", ". C." and "."
C25_Witness ==
  /\ ScenarioCalled
  /\ Len(chunks) = 3
  /\ chunks[1].content = <<"A", ".", " ", "B", ".">>
  /\ chunks[2].content = <<".", " ", "C", ".">>
  /\ chunks[3].content = <<".">>

(***************************************************************************)
(* The window ends of chunkText (checked under SpecChunk).                 *)
(***************************************************************************)
\* the positions before the candidate end that hold a '.' or a newline
TerminatorsBefore(candidate) ==
  {p \in 0..(candidate - 1) : text[p + 1] \in {".", "\n"}}

\* the nearest of them, or -1
NearestTerminator(candidate) ==
  IF TerminatorsBefore(candidate) = {} THEN -1
  ELSE CHOOSE p \in TerminatorsBefore(candidate) : \A o \in TerminatorsBefore(candidate) : o <= p

\* C27: for every chunk of chunkText whose candidate end start + max_size
\* is interior to the text, the end is just after the nearest preceding
\* '.' or newline if that terminator is not before start + max_size * 0.5,
\* and exactly start + max_size otherwise.
C27_SnapOrHardCut ==
  chunker = "chunkText" =>
    \A k \in 1..Len(chunks) :
      LET candidate == chunks[k].startIndex + maxChunkSize
          terminator == NearestTerminator(candidate)
      IN candidate < Len(text) =>
           chunks[k].endIndex =
             IF terminator >= 0 /\ 2 * terminator >= 2 * chunks[k].startIndex + maxChunkSize
             THEN terminator + 1 ELSE candidate

\* C29: every chunk of chunkText has a window no longer than max_size, and
\* so a content no longer than max_size.
C29_WindowWithinMaxSize ==
  chunker = "chunkText" =>
    \A k \in 1..Len(chunks) :
      /\ chunks[k].endIndex - chunks[k].startIndex <= maxChunkSize
      /\ Len(chunks[k].content) <= maxChunkSize

(***************************************************************************)
(* The chunks of chunkMarkdown (checked under SpecChunk).                  *)
(***************************************************************************)
\* no heading line begins inside the content of a chunk
SplitAtHeadings ==
  \A k \in 1..Len(chunks) :
    \A q \in 1..(Len(chunks[k].content) - 1) : ~HeadingAt(chunks[k].content, q)

\* a text that is one section no longer than max_size is one chunk
SmallSectionOneChunk ==
  (/\ \A q \in 1..(Len(text) - 1) : ~HeadingAt(text, q)
   /\ Len(Trim(text)) > 0
   /\ Len(text) <= maxChunkSize)
    => chunks = <<TextChunk(Trim(text), 0, Len(text))>>

\* no chunk is longer than max_size
NoOversizedChunk == \A k \in 1..Len(chunks) : Len(chunks[k].content) <= maxChunkSize

\* C28: chunkMarkdown splits at every heading line, emits a section no
\* longer than max_size as one chunk, and emits no chunk longer than
\* max_size: a longer section is subdivided at blank lines and a paragraph
\* that is still too long is windowed.
C28_MarkdownChunksBounded ==
  chunker = "chunkMarkdown" =>
    /\ SplitAtHeadings
    /\ SmallSectionOneChunk
    /\ NoOversizedChunk

(***************************************************************************)
(* Failed is left only by a new run (checked under Spec).                  *)
(***************************************************************************)
\* C30: no step turns a failed Document completed.  The only step that
\* leaves failed is the start of a new run, which sets processing; so a run
\* that was already in progress when the maintenance pass or the failure
\* handler set failed does not overwrite it with completed.
C30_FailedStaysUntilNewRun ==
  [][\A d \in Docs : upload_status[d] = "failed" => upload_status'[d] # "completed"]_vars

=============================================================================
